---------------------------- MODULE Spec2Model ----------------------------
(***************************************************************************)
(* The clip-command generation cell of Python-and-Gdal.ipynb (lines        *)
(* 438-461): glob the band files of a directory, render one gdalwarp       *)
(* command per file into one accumulated string, then open, write and      *)
(* close the script file ClipTurkufromLandsat.sh.                          *)
(*                                                                         *)
(* Strings are sequences of one-character strings, so that slicing,        *)
(* concatenation, %-formatting, pattern matching and line splitting are    *)
(* computed character by character as Python computes them.                *)
(***************************************************************************)
EXTENDS Integers, Sequences, FiniteSets, TLC

VARIABLES
    dirExists,      \* does /home/geo/LandsatData exist
    dir,            \* the names of the entries of that directory
    extent,         \* the tuple the reader typed on the right of line 445
    pc,             \* the statement of the cell that runs next
    FileList,       \* line 442
    coords,         \* <<xmin, ymin, xmax, ymax>> once line 445 has run
    command,        \* lines 448, 454
    idx,            \* position of the for loop of line 450 in FileList
    rendered,       \* history: the string each iteration appended
    outputs,        \* history: the outputfile of each iteration
    scriptExists,   \* does ClipTurkufromLandsat.sh exist on disk
    scriptContent,  \* its content on disk
    fbuf,           \* the text held by the open file object f, not yet on disk
    exc,            \* the exception the cell raised to its caller, or "None"
    startExists,    \* history: scriptExists when this run of the cell began
    startContent,   \* history: scriptContent when this run of the cell began
    writeCalls      \* history: calls of f.write in this run

vars == <<dirExists, dir, extent, pc, FileList, coords, command, idx,
          rendered, outputs, scriptExists, scriptContent, fbuf, exc,
          startExists, startContent, writeCalls>>

-----------------------------------------------------------------------------
(* Bounds of the model *)

\* the largest number of entries of the directory
MaxFiles == 2

\* the entry names the directory is populated from
NameUniverse ==
    { <<"b","a","n","d","3",".","t","i","f">>,
      <<"b","a","n","d","4",".","t","i","f">>,
      <<"b","a","n","d","4","_","c","l","i","p",".","t","i","f">>,
      <<".","b","a","n","d","5",".","t","i","f">>,
      <<"b","6",".","t","i","f">>,
      <<"b","a","n","d","\n","7",".","t","i","f">>,
      <<"b","a","n","d","%","s",".","t","i","f">> }

\* the tuples a reader may type at "INSERT HERE THE CORRECT COORDINATES":
\* four coordinates, or one of them forgotten
ExtentChoices == { <<0, 14, 250, 6>>, <<0, 14, 250>> }

-----------------------------------------------------------------------------
(* String helpers *)

Digit(n) == <<"0","1","2","3","4","5","6","7","8","9">>[n + 1]

RECURSIVE IntToStr(_)
\* str() of a non-negative int: its decimal digits
IntToStr(n) == IF n < 10 THEN <<Digit(n)>>
               ELSE IntToStr(n \div 10) \o <<Digit(n % 10)>>

\* the values handed to the % operator : an int or a str
PyInt(n) == [t |-> "int", v |-> n]
PyStr(s) == [t |-> "str", v |-> s]
Str(x) == IF x.t = "int" THEN IntToStr(x.v) ELSE x.v

RECURSIVE Flatten(_)
Flatten(ss) == IF ss = <<>> THEN <<>> ELSE Head(ss) \o Flatten(Tail(ss))

IsPrefix(s, t) == Len(s) <= Len(t) /\ SubSeq(t, 1, Len(s)) = s
IsSuffix(s, t) == Len(s) <= Len(t) /\ SubSeq(t, Len(t) - Len(s) + 1, Len(t)) = s

Range(s) == { s[k] : k \in 1..Len(s) }

\* the orders in which a finite set can be listed
Orderings(S) == { s \in [1..Cardinality(S) -> S] : Range(s) = S }

\* the position of the first newline of s, 0 when it has none
FirstNewline(s) ==
    IF \E k \in 1..Len(s) : s[k] = "\n"
    THEN CHOOSE k \in 1..Len(s) :
            s[k] = "\n" /\ \A j \in 1..(k - 1) : s[j] # "\n"
    ELSE 0

RECURSIVE ReadLines(_)
\* the lines read back from a text: each ends with its newline, but for a
\* last line that has none
ReadLines(s) ==
    IF s = <<>> THEN <<>>
    ELSE LET k == FirstNewline(s)
         IN  IF k = 0 THEN <<s>>
             ELSE <<SubSeq(s, 1, k)>> \o ReadLines(SubSeq(s, k + 1, Len(s)))

Blank(c) == c \in {" ", "\n"}

RECURSIVE Words(_)
\* the words of a command line as a shell splits them: the maximal runs of
\* characters other than blanks
Words(s) ==
    IF s = <<>> THEN <<>>
    ELSE IF Blank(Head(s)) THEN Words(Tail(s))
    ELSE LET n == IF \E k \in 1..Len(s) : Blank(s[k])
                  THEN (CHOOSE k \in 1..Len(s) :
                          Blank(s[k]) /\ \A j \in 1..(k - 1) : ~Blank(s[j])) - 1
                  ELSE Len(s)
         IN  <<SubSeq(s, 1, n)>> \o Words(SubSeq(s, n + 1, Len(s)))

-----------------------------------------------------------------------------
(* The library calls of the cell, computed as Python computes them *)

\* r'/home/geo/LandsatData', the first argument of os.path.join on line 442
DirName == <<"/","h","o","m","e","/","g","e","o","/",
             "L","a","n","d","s","a","t","D","a","t","a">>

\* the pattern of every .tif file
PatternAnyTif == <<"*",".","t","i","f">>

\* '*band*.tif', the second argument of os.path.join on line 442
Pattern == <<"*","b","a","n","d","*",".","t","i","f">>

\* os.path.join(a, b) for a relative b and an a that does not end in a slash
PathJoin(a, b) == a \o <<"/">> \o b

\* glob._ishidden: the name starts with a dot
IsHidden(name) == name # <<>> /\ Head(name) = "."

RECURSIVE FnMatch(_, _)
\* fnmatch.fnmatchcase for patterns of literals, * and ? : the whole name
\* has to match, * stands for any run of characters (a newline included)
FnMatch(pat, name) ==
    IF pat = <<>> THEN name = <<>>
    ELSE IF Head(pat) = "*"
         THEN FnMatch(Tail(pat), name)
              \/ (name # <<>> /\ FnMatch(pat, Tail(name)))
    ELSE IF Head(pat) = "?"
         THEN name # <<>> /\ FnMatch(Tail(pat), Tail(name))
    ELSE name # <<>> /\ Head(name) = Head(pat)
         /\ FnMatch(Tail(pat), Tail(name))

\* glob._glob1 : the entries of the directory (none when it cannot be
\* listed), without the hidden ones unless the pattern is hidden itself,
\* filtered by the pattern
GlobNames(exists, entries, pat) ==
    LET names  == IF exists THEN entries ELSE {}
        shown  == IF IsHidden(pat) THEN names
                  ELSE { n \in names : ~IsHidden(n) }
    IN  { n \in shown : FnMatch(pat, n) }

\* glob.glob(os.path.join(DirName, Pattern)) : one path per matching entry;
\* the order is that of the directory listing, which nothing fixes
GlobResults(exists, entries) ==
    LET names == GlobNames(exists, entries, Pattern)
    IN  { [k \in 1..Len(o) |-> PathJoin(DirName, o[k])] : o \in Orderings(names) }

\* the slice taken one character short: inputfile[:-3] + "_clip.tif"
DeriveKeepsDot(inputfile) ==
    SubSeq(inputfile, 1, Len(inputfile) - 3)
        \o <<"_","c","l","i","p",".","t","i","f">>

\* the slice taken one character long: inputfile[:-5] + "_clip.tif"
DeriveDropsDigit(inputfile) ==
    SubSeq(inputfile, 1, Len(inputfile) - 5)
        \o <<"_","c","l","i","p",".","t","i","f">>

\* inputfile[:-4] + "_clip.tif"   (line 452)
DeriveOutputPath(inputfile) ==
    SubSeq(inputfile, 1, Len(inputfile) - 4)
        \o <<"_","c","l","i","p",".","t","i","f">>

\* "gdalwarp -te %s %s %s %s %s %s \n"   (line 454)
Template == <<"g","d","a","l","w","a","r","p"," ","-","t","e"," ",
              "%","s"," ","%","s"," ","%","s"," ","%","s"," ",
              "%","s"," ","%","s"," ","\n">>

FmtOk(s) == [ok |-> TRUE, s |-> s, exc |-> "None"]
FmtErr(e) == [ok |-> FALSE, s |-> <<>>, exc |-> e]
FmtCons(s, r) == IF r.ok THEN FmtOk(s \o r.s) ELSE r

RECURSIVE PyFormatRescans(_, _)
\* a formatting that scans the text put for a value again, as repeated
\* replacement does: a %s inside a value takes the next value
PyFormatRescans(t, args) ==
    LET k == IF \E j \in 1..Len(t) : t[j] = "%"
             THEN CHOOSE j \in 1..Len(t) :
                     t[j] = "%" /\ \A i \in 1..(j - 1) : t[i] # "%"
             ELSE 0
    IN  IF k = 0
        THEN IF args = <<>> THEN FmtOk(t) ELSE FmtErr("TypeError")
        ELSE IF k = Len(t) THEN FmtErr("ValueError")
        ELSE IF t[k + 1] = "%"
             THEN FmtCons(SubSeq(t, 1, k),
                          PyFormatRescans(SubSeq(t, k + 2, Len(t)), args))
        ELSE IF t[k + 1] # "s" THEN FmtErr("ValueError")
        ELSE IF args = <<>> THEN FmtErr("TypeError")
        ELSE FmtCons(SubSeq(t, 1, k - 1),
                     PyFormatRescans(Str(Head(args)) \o SubSeq(t, k + 2, Len(t)),
                                     Tail(args)))

RECURSIVE PyFormat(_, _)
\* template % args : one pass over the template; %s takes the next value
\* and puts its str(), %% puts a percent sign; the text put for a value is
\* not scanned again.  Too few or too many values raise TypeError.
PyFormat(t, args) ==
    IF t = <<>>
    THEN IF args = <<>> THEN FmtOk(<<>>) ELSE FmtErr("TypeError")
    ELSE IF Head(t) # "%" THEN FmtCons(<<Head(t)>>, PyFormat(Tail(t), args))
    ELSE IF Len(t) < 2 THEN FmtErr("ValueError")
    ELSE IF t[2] = "%" THEN FmtCons(<<"%">>, PyFormat(Tail(Tail(t)), args))
    ELSE IF t[2] # "s" THEN FmtErr("ValueError")
    ELSE IF args = <<>> THEN FmtErr("TypeError")
    ELSE FmtCons(Str(Head(args)), PyFormat(Tail(Tail(t)), Tail(args)))

\* the command of one file rendered with the rescanning formatting
RenderRescans(xy, inputfile, outputfile) ==
    PyFormatRescans(Template,
             <<PyInt(xy[1]), PyInt(xy[2]), PyInt(xy[3]), PyInt(xy[4]),
               PyStr(inputfile), PyStr(outputfile)>>)

\* the right-hand side of line 454 for one file
RenderCommand(xy, inputfile, outputfile) ==
    PyFormat(Template,
             <<PyInt(xy[1]), PyInt(xy[2]), PyInt(xy[3]), PyInt(xy[4]),
               PyStr(inputfile), PyStr(outputfile)>>)

\* the buffer size of a file object opened as on line 458
DEFAULT_BUFFER_SIZE == 8192

\* the cell with the file opened before the commands are rendered
ProgramOpensFirst ==
    <<"glob", "open", "extent", "init", "for", "write", "close">>

\* the statements of the cell in the order they run
Program == <<"glob", "extent", "init", "for", "open", "write", "close">>

\* the statement that runs after stmt, "done" after the last one
After(stmt) ==
    LET k == CHOOSE j \in 1..Len(Program) : Program[j] = stmt
    IN  IF k = Len(Program) THEN "done" ELSE Program[k + 1]

-----------------------------------------------------------------------------
(* The state the cell starts from *)

\* the directories the cell may find: absent, or holding up to MaxFiles
\* entries
Environments ==
    { e \in [exists : BOOLEAN, entries : SUBSET NameUniverse] :
        /\ Cardinality(e.entries) <= MaxFiles
        /\ (~e.exists => e.entries = {}) }

\* what the directory e can have become by the next run of the cell:
\* unchanged, one entry created or removed, or the empty directory itself
\* created or removed
Changed(exists, entries) ==
    { e \in Environments :
        \/ e.exists = exists /\ e.entries = entries
        \/ /\ e.exists /\ exists
           /\ Cardinality((e.entries \ entries) \cup (entries \ e.entries)) = 1
        \/ e.exists # exists /\ e.entries = {} /\ entries = {} }

\* the variables of the kernel before the cell has assigned them
Fresh ==
    /\ pc = Program[1]
    /\ FileList = <<>>
    /\ coords = <<>>
    /\ command = <<>>
    /\ idx = 0
    /\ rendered = <<>>
    /\ outputs = <<>>
    /\ fbuf = <<>>
    /\ exc = "None"
    /\ writeCalls = 0

Init ==
    /\ \E e \in Environments : dirExists = e.exists /\ dir = e.entries
    /\ extent \in ExtentChoices
    /\ scriptExists = FALSE
    /\ scriptContent = <<>>
    /\ startExists = FALSE
    /\ startContent = <<>>
    /\ Fresh

-----------------------------------------------------------------------------
(* The statements of the cell *)

\* an uncaught exception ends the cell and reaches the caller
Raise(e) ==
    /\ pc' = "raised"
    /\ exc' = e

\* an enumeration that raises when the directory is missing, as
\* os.listdir would
GlobRaisesNotFound ==
    /\ pc = "glob"
    /\ IF dirExists
       THEN /\ FileList' \in GlobResults(dirExists, dir)
            /\ pc' = After("glob")
            /\ exc' = exc
       ELSE /\ FileList' = FileList
            /\ pc' = "raised"
            /\ exc' = "NotFound"
    /\ UNCHANGED <<dirExists, dir, extent, coords, command, idx, rendered,
                   outputs, scriptExists, scriptContent, fbuf,
                   startExists, startContent, writeCalls>>

\* line 442: FileList = glob.glob(os.path.join(r'/home/geo/LandsatData','*band*.tif'))
Glob ==
    /\ pc = "glob"
    /\ FileList' \in GlobResults(dirExists, dir)
    /\ pc' = After("glob")
    /\ UNCHANGED <<dirExists, dir, extent, coords, command, idx, rendered,
                   outputs, scriptExists, scriptContent, fbuf, exc,
                   startExists, startContent, writeCalls>>

\* line 445: xmin, ymin, xmax,ymax = (...) ; unpacking a tuple that has not
\* exactly four values raises ValueError
Extent ==
    /\ pc = "extent"
    /\ IF Len(extent) = 4
       THEN coords' = extent /\ pc' = After("extent") /\ exc' = exc
       ELSE coords' = coords /\ Raise("ValueError")
    /\ UNCHANGED <<dirExists, dir, extent, FileList, command, idx, rendered,
                   outputs, scriptExists, scriptContent, fbuf,
                   startExists, startContent, writeCalls>>

\* line 448: command = ""
InitCommand ==
    /\ pc = "init"
    /\ command' = <<>>
    /\ idx' = 1
    /\ pc' = After("init")
    /\ UNCHANGED <<dirExists, dir, extent, FileList, coords, rendered,
                   outputs, scriptExists, scriptContent, fbuf, exc,
                   startExists, startContent, writeCalls>>

\* lines 450-454: one iteration of the loop over FileList
ForBody ==
    /\ pc = "for"
    /\ idx <= Len(FileList)
    /\ LET inputfile  == FileList[idx]
           outputfile == DeriveOutputPath(inputfile)
           r          == RenderCommand(coords, inputfile, outputfile)
       IN  IF r.ok
           THEN /\ command' = command \o r.s
                /\ rendered' = Append(rendered, r.s)
                /\ outputs' = Append(outputs, outputfile)
                /\ idx' = idx + 1
                /\ UNCHANGED <<pc, exc>>
           ELSE /\ Raise(r.exc)
                /\ UNCHANGED <<command, rendered, outputs, idx>>
    /\ UNCHANGED <<dirExists, dir, extent, FileList, coords, scriptExists,
                   scriptContent, fbuf, startExists, startContent, writeCalls>>

\* line 450: FileList is exhausted, the loop ends
ForExit ==
    /\ pc = "for"
    /\ idx > Len(FileList)
    /\ pc' = After("for")
    /\ UNCHANGED <<dirExists, dir, extent, FileList, coords, command, idx,
                   rendered, outputs, scriptExists, scriptContent, fbuf, exc,
                   startExists, startContent, writeCalls>>

\* the file opened for appending: open(cmd_file, 'a')
OpenAppend ==
    /\ pc = "open"
    /\ scriptExists' = TRUE
    /\ scriptContent' = scriptContent
    /\ fbuf' = <<>>
    /\ pc' = After("open")
    /\ UNCHANGED <<dirExists, dir, extent, FileList, coords, command, idx,
                   rendered, outputs, exc, startExists, startContent,
                   writeCalls>>

\* lines 457-458: f = open("ClipTurkufromLandsat.sh", 'w') creates the file
\* or truncates it
Open ==
    /\ pc = "open"
    /\ scriptExists' = TRUE
    /\ scriptContent' = <<>>
    /\ fbuf' = <<>>
    /\ pc' = After("open")
    /\ UNCHANGED <<dirExists, dir, extent, FileList, coords, command, idx,
                   rendered, outputs, exc, startExists, startContent,
                   writeCalls>>

\* one unbuffered f.write per rendered command instead of one for the whole
\* text
WritePerCommand ==
    /\ pc = "write"
    /\ IF writeCalls < Len(rendered)
       THEN /\ scriptContent' = scriptContent \o rendered[writeCalls + 1]
            /\ writeCalls' = writeCalls + 1
            /\ pc' = "write"
       ELSE /\ UNCHANGED <<scriptContent, writeCalls>>
            /\ pc' = After("write")
    /\ UNCHANGED <<dirExists, dir, extent, FileList, coords, command, idx,
                   rendered, outputs, scriptExists, fbuf, exc, startExists,
                   startContent>>

\* line 460: f.write(command) ; the text stays in the buffer of f unless it
\* outgrows it
Write ==
    /\ pc = "write"
    /\ IF Len(fbuf) + Len(command) > DEFAULT_BUFFER_SIZE
       THEN scriptContent' = scriptContent \o fbuf \o command /\ fbuf' = <<>>
       ELSE scriptContent' = scriptContent /\ fbuf' = fbuf \o command
    /\ writeCalls' = writeCalls + 1
    /\ pc' = After("write")
    /\ UNCHANGED <<dirExists, dir, extent, FileList, coords, command, idx,
                   rendered, outputs, scriptExists, exc, startExists,
                   startContent>>

\* what gdalwarp creates in the directory when the lines of a script are
\* run by a shell: a line of eight words "gdalwarp -te xmin ymin xmax ymax
\* input output" whose input is an entry of the directory creates its
\* output; any other line fails and creates nothing
CreatedBy(script, exists, entries) ==
    LET lines  == ReadLines(script)
        prefix == DirName \o <<"/">>
    IN  { SubSeq(Words(lines[k])[8], Len(prefix) + 1, Len(Words(lines[k])[8])) :
            k \in { j \in 1..Len(lines) :
                      LET w == Words(lines[j])
                      IN  /\ exists
                          /\ Len(w) = 8
                          /\ w[1] = <<"g","d","a","l","w","a","r","p">>
                          /\ w[2] = <<"-","t","e">>
                          /\ \E n \in entries : w[7] = prefix \o n
                          /\ IsPrefix(prefix, w[8])
                          /\ Len(w[8]) > Len(prefix) } }

\* f.close() followed by running the commands from Python, as the notebook
\* does for gdal_merge.py with os.system
CloseAndExecute ==
    /\ pc = "close"
    /\ scriptContent' = scriptContent \o fbuf
    /\ fbuf' = <<>>
    /\ pc' = After("close")
    /\ dir' = dir \cup CreatedBy(scriptContent \o fbuf, dirExists, dir)
    /\ UNCHANGED <<dirExists, extent, FileList, coords, command, idx,
                   rendered, outputs, scriptExists, exc, startExists,
                   startContent, writeCalls>>

\* line 461: f.close() flushes the buffer to the file
Close ==
    /\ pc = "close"
    /\ scriptContent' = scriptContent \o fbuf
    /\ fbuf' = <<>>
    /\ pc' = After("close")
    /\ UNCHANGED <<dirExists, dir, extent, FileList, coords, command, idx,
                   rendered, outputs, scriptExists, exc, startExists,
                   startContent, writeCalls>>

\* line 483: bash ClipTurkufromLandsat.sh, run in the terminal after the
\* cell has ended; the clipped files appear in the directory.  The step is
\* taken when the directory it leaves is one of Environments.
ExecuteScript ==
    /\ pc \in {"done", "raised"}
    /\ scriptExists
    /\ LET after == dir \cup CreatedBy(scriptContent, dirExists, dir)
       IN  /\ [exists |-> dirExists, entries |-> after] \in Environments
           /\ dir' = after
    /\ pc' = "ran"
    /\ UNCHANGED <<dirExists, extent, FileList, coords, command, idx,
                   rendered, outputs, scriptExists, scriptContent, fbuf, exc,
                   startExists, startContent, writeCalls>>

\* the cell is run again ("fix input and rerun"), after the reader may have
\* edited line 445 and the directory may have changed; the script file is
\* what the earlier runs left.  Every variable of the kernel is assigned
\* by the cell before it is read, so the old values are dropped here.
Rerun ==
    /\ pc \in {"done", "raised", "ran"}
    /\ \E e \in Changed(dirExists, dir) :
          dirExists' = e.exists /\ dir' = e.entries
    /\ extent' \in ExtentChoices
    /\ startExists' = scriptExists
    /\ startContent' = scriptContent
    /\ pc' = Program[1]
    /\ FileList' = <<>>
    /\ coords' = <<>>
    /\ command' = <<>>
    /\ idx' = 0
    /\ rendered' = <<>>
    /\ outputs' = <<>>
    /\ fbuf' = <<>>
    /\ exc' = "None"
    /\ writeCalls' = 0
    /\ UNCHANGED <<scriptExists, scriptContent>>

Next ==
    \/ Glob
    \/ Extent
    \/ InitCommand
    \/ ForBody
    \/ ForExit
    \/ Open
    \/ Write
    \/ Close
    \/ ExecuteScript
    \/ Rerun

Spec == Init /\ [][Next]_vars

-----------------------------------------------------------------------------
(* Properties *)

\* C1: a run that fails (a value of the command is missing) reports the
\* exception to its caller and leaves the script file as it found it, and
\* a run writes to the script only after it has rendered a command for
\* every enumerated file.
C1_FailureAbortsBeforeScript ==
    /\ pc = "raised" =>
          /\ exc # "None"
          /\ scriptExists = startExists
          /\ scriptContent = startContent
    /\ (writeCalls > 0 \/ pc = "done") => Len(rendered) = Len(FileList)

\* a run that enumerated files failed, with a script of an earlier run on
\* disk
C1_Witness ==
    /\ pc = "raised"
    /\ exc = "ValueError"
    /\ Len(FileList) = 2
    /\ startExists
    /\ startContent # <<>>

TifExt == <<".","t","i","f">>
ClipTif == <<"_","c","l","i","p",".","t","i","f">>
Band3 == PathJoin(DirName, <<"b","a","n","d","3",".","t","i","f">>)
Band4 == PathJoin(DirName, <<"b","a","n","d","4",".","t","i","f">>)
Band3Clip == PathJoin(DirName, <<"b","a","n","d","3">> \o ClipTif)
Band4Clip == PathJoin(DirName, <<"b","a","n","d","4">> \o ClipTif)

\* C2: the finished script has one command line per enumerated file, in
\* enumeration order: as many lines as FileList has files, and the input
\* word (the 7th word: gdalwarp -te xmin ymin xmax ymax INPUT output) of
\* line i is FileList[i].
C2_OneLinePerFileInOrder ==
    pc = "done" =>
        LET lines == ReadLines(scriptContent)
        IN  /\ Len(lines) = Len(FileList)
            /\ \A k \in 1..Len(lines) :
                  /\ Len(Words(lines[k])) = 8
                  /\ Words(lines[k])[7] = FileList[k]

\* C3: for every enumerated path stem.tif the rendered command is a
\* gdalwarp call that ends with the path itself followed by stem_clip.tif,
\* e.g. band3.tif and band4.tif give band3_clip.tif and band4_clip.tif.
C3_ClipBeforeExtension ==
    \A k \in 1..Len(rendered) :
        LET p == FileList[k]
        IN  IsSuffix(TifExt, p) =>
              \E n \in 0..Len(p) :
                 LET stem == SubSeq(p, 1, n)
                 IN  /\ p = stem \o TifExt
                     /\ outputs[k] = stem \o ClipTif
                     /\ IsPrefix(<<"g","d","a","l","w","a","r","p"," ","-","t","e"," ">>,
                                 rendered[k])
                     /\ IsSuffix(<<" ">> \o p \o <<" ">> \o stem \o ClipTif
                                    \o <<" ", "\n">>, rendered[k])
                     /\ (p = Band3 => outputs[k] = Band3Clip)
                     /\ (p = Band4 => outputs[k] = Band4Clip)

\* band3.tif and band4.tif have been enumerated and rendered
C3_Witness ==
    /\ pc = "done"
    /\ Range(FileList) = {Band3, Band4}
    /\ Range(outputs) = {Band3Clip, Band4Clip}

\* C4: the output paths derived for two different files of one batch are
\* different.
C4_DerivedPathsDistinct ==
    \A j, k \in 1..Len(outputs) :
        FileList[j] # FileList[k] => outputs[j] # outputs[k]

\* a batch of two different files has been rendered
C4_Witness ==
    /\ pc = "done"
    /\ Len(outputs) = 2
    /\ FileList[1] # FileList[2]

\* C5: reading the finished script back line by line gives the rendered
\* commands that were written, same count, content and order.
C5_WriteReadRoundTrip ==
    pc = "done" => ReadLines(scriptContent) = rendered

\* a name matches the glob pattern *band*.tif: it does not start with a
\* dot, ends in .tif, and has "band" somewhere before that ending
MatchesBandTif(n) ==
    /\ n # <<>>
    /\ n[1] # "."
    /\ IsSuffix(TifExt, n)
    /\ \E k \in 1..Len(n) :
          /\ k + 3 <= Len(n) - 4
          /\ SubSeq(n, k, k + 3) = <<"b","a","n","d">>

\* the entries of the directory whose names match the pattern
MatchingEntries == { n \in dir : MatchesBandTif(n) }

\* C6 as claimed: once the enumeration has run on a missing directory the
\* cell has failed with NotFound, and it never writes a script.
C6_NotFoundOnMissingDirectory ==
    (~dirExists /\ pc # "glob") =>
        /\ pc = "raised"
        /\ exc = "NotFound"
        /\ scriptExists = startExists
        /\ scriptContent = startContent

\* C6 as amended: on a missing directory the enumeration reports no
\* failure and returns the empty sequence, and a run that completes writes
\* the empty script, as it does for a directory without matches.
C6_MissingDirectoryIsEmptyMatch ==
    (~dirExists /\ pc # "glob") =>
        /\ FileList = <<>>
        /\ exc # "NotFound"
        /\ (pc = "raised" => Len(extent) # 4)
        /\ (pc = "done" =>
               scriptExists /\ scriptContent = <<>> /\ rendered = <<>>)

\* a run on a missing directory has completed, over the script of an
\* earlier run
C6_Witness ==
    /\ ~dirExists
    /\ pc = "done"
    /\ startContent # <<>>

\* C7: in an existing directory without a matching entry, a run with its
\* four coordinates raises nothing, and when it is done the script file
\* exists and is empty.
C7_NoMatchGivesEmptyScript ==
    (dirExists /\ MatchingEntries = {} /\ Len(extent) = 4) =>
        /\ pc # "raised"
        /\ exc = "None"
        /\ (pc # "glob" => FileList = <<>>)
        /\ (pc = "done" => scriptExists /\ scriptContent = <<>>)

\* a run has completed in a directory that has entries but no match, over
\* the script of an earlier run
C7_Witness ==
    /\ dirExists
    /\ dir # {}
    /\ MatchingEntries = {}
    /\ pc = "done"
    /\ startContent # <<>>

\* C9: after the enumeration, and until running the script changes the
\* directory, FileList holds the path of every matching entry of the
\* directory and nothing else, each once: N paths for N matching entries.
C9_EnumerateExactlyMatches ==
    pc \notin {"glob", "ran"} =>
        /\ Range(FileList) = { PathJoin(DirName, n) : n \in MatchingEntries }
        /\ Len(FileList) = Cardinality(MatchingEntries)
        /\ \A j, k \in 1..Len(FileList) : j # k => FileList[j] # FileList[k]

\* a directory of two entries has been enumerated, one that matches and a
\* hidden one that would match but for its leading dot
C9_Witness ==
    /\ pc = "extent"
    /\ Cardinality(dir) = 2
    /\ \E n \in dir : IsSuffix(TifExt, n) /\ n[1] = "."
    /\ Cardinality(MatchingEntries) = 1
    /\ Len(FileList) = 1

\* C10: the script changes on disk only after the whole text is built; it
\* then holds nothing (opened) or the whole text (closed), never a part of
\* it; and f.write is called once per run.
C10_WrittenOnceAndWhole ==
    /\ scriptContent # startContent =>
          /\ Len(rendered) = Len(FileList)
          /\ command = Flatten(rendered)
    /\ \/ scriptContent = startContent /\ scriptExists = startExists
       \/ scriptContent = <<>>
       \/ scriptContent = command
    /\ ~(/\ pc \in {"write", "close", "done"}
         /\ scriptContent # <<>>
         /\ scriptContent # command
         /\ IsPrefix(scriptContent, command))
    /\ writeCalls <= 1
    /\ (pc = "done" => writeCalls = 1 /\ scriptContent = command)

\* f has been written to and not closed yet: two commands are in its
\* buffer and the file on disk is still empty
C10_Witness ==
    /\ pc = "close"
    /\ Len(rendered) = 2
    /\ fbuf = command
    /\ scriptContent = <<>>

\* C11: no statement of the cell creates or removes the directory or an
\* entry of it (an enumerated input, a derived output or any other file):
\* the steps of a run leave the directory as it is; only the script file
\* changes.
C11_OnlyTheScriptChanges ==
    [][pc \notin {"done", "raised", "ran"} =>
          /\ dir' = dir
          /\ dirExists' = dirExists]_vars

\* a run has written a command for an input whose output does not exist:
\* the command is listed in the script and has not been run
C11_Witness ==
    /\ pc = "done"
    /\ FileList = <<Band4>>
    /\ scriptContent # <<>>
    /\ dir = {<<"b","a","n","d","4",".","t","i","f">>}

\* the text holds placeholder syntax: a percent sign followed by s
HasPlaceholder(s) ==
    \E k \in 1..(Len(s) - 1) : s[k] = "%" /\ s[k + 1] = "s"

\* C12 as claimed: no rendered command holds placeholder syntax (rendering
\* never fails with UnresolvedPlaceholder, so every rendered command is one
\* that is written).
C12_NoPlaceholderSyntaxWritten ==
    /\ \A k \in 1..Len(rendered) : ~HasPlaceholder(rendered[k])
    /\ (pc = "done" => ~HasPlaceholder(scriptContent))

\* C12 as amended: rendering fills each of the six placeholders of the
\* template once, in one pass, and never fails: the rendered command is
\* the text of the template with the four coordinates, the input path and
\* the output path in place.  It holds placeholder syntax exactly when the
\* file path does, and is written as it is.
C12_TemplateFilledInOnePass ==
    /\ exc \notin {"TypeError", "UnresolvedPlaceholder"}
    /\ (pc = "raised" => Len(extent) # 4)
    /\ \A k \in 1..Len(rendered) :
          /\ coords = <<0, 14, 250, 6>> =>
                rendered[k] =
                    <<"g","d","a","l","w","a","r","p"," ","-","t","e"," ",
                      "0"," ","1","4"," ","2","5","0"," ","6"," ">>
                    \o FileList[k] \o <<" ">> \o outputs[k] \o <<" ", "\n">>
          /\ HasPlaceholder(rendered[k]) <=> HasPlaceholder(FileList[k])
    /\ (pc = "done" => scriptContent = Flatten(rendered))

\* a command for a file whose name holds %s has been written to the script
C12_Witness ==
    /\ pc = "done"
    /\ Len(FileList) = 2
    /\ \E k \in 1..2 : HasPlaceholder(FileList[k])
    /\ HasPlaceholder(scriptContent)

\* C13: in one batch no derived output path is also an enumerated input
\* path, so that generating again after the script has been run gives the
\* same commands.
C13_NoOutputIsAnInput ==
    \A j, k \in 1..Len(outputs) : outputs[j] # FileList[k]

\* C14: when a run is done the script holds the commands of that run and
\* nothing else, whatever an earlier run had left in it.
C14_ScriptIsTheLastRun ==
    pc = "done" =>
        /\ scriptExists
        /\ scriptContent = Flatten(rendered)
        /\ Len(rendered) = Len(FileList)

\* a run with one match is done over the longer script of an earlier run
C14_Witness ==
    /\ pc = "done"
    /\ Len(rendered) = 1
    /\ Len(startContent) > Len(scriptContent)
    /\ Len(ReadLines(startContent)) = 2

=============================================================================
